---- MODULE Spec2Model ----
(***************************************************************************)
(* A model of the regular-expression matcher "regular": parse.c (the       *)
(* recursive-descent parser), pattern.c (the pattern nodes and their       *)
(* locate/matches/destroy methods) and regular.c (the driver).             *)
(*                                                                         *)
(* C strings are sequences of one-character strings; the terminating NUL   *)
(* is not stored, str[pos] of the C code is At(str, pos) (0-based).        *)
(***************************************************************************)
EXTENDS Integers, Sequences, FiniteSets, TLC

\* ------------------------------------------------------------------ bounds
\* Longest pattern text (argv[1]) built from PatChars.
MaxPatLen == 2
\* Longest input line built from LineChars.
MaxLineLen == 2
\* Most calls of locate on the root in one run.
MaxLocate == 2
\* Characters a bounded pattern text is built from.
PatChars == {"a", "b", "(", ")", "[", "]", "|", "*", "+", "?"}
\* Characters a bounded input line is built from.
LineChars == {"a", "b"}

\* The terminating '\0' of a C string.
NUL == "NUL"

RECURSIVE SeqsUpTo(_, _)
SeqsUpTo(S, n) ==
    IF n = 0 THEN {<< >>}
    ELSE LET shorter == SeqsUpTo(S, n - 1)
         IN  shorter \cup {Append(s, c) : s \in shorter, c \in S}

\* The pattern texts and input lines of the specification's scenarios.
ScenarioPatterns ==
    { <<"a", "*", "b">>,
      <<"a", "|", "b">>,
      <<"(", "a", "b", ")", "+", "c">>,
      <<"[", "a", "b", "c", "]">>,
      <<"a", "(">>,
      <<"(", "(", "a", ")", "b", ")">>,
      <<"(", "a", "(", "b", "|", "c", ")", ")", "d">> }
ScenarioLines ==
    { <<"a", "a", "a", "b">>,
      <<"a", "b", "a", "b", "c">>,
      <<"a", "b", "a">>,
      <<"c">>, <<"d">>, <<"~">> }

\* Longer pattern texts, and texts with the syntax PatChars leaves out
\* ('.', '^', '$', '{').
MorePatterns ==
    { <<"a", "b", "*">>, <<"a", "?", "b">>, <<"a", "+", "b">>, <<"a", "b", "a">>,
      <<"(", "a", ")">>, <<"(", "a", "b", ")">>, <<"(", "a", "|", "b", ")", "*">>,
      <<"(", "a", "b", ")", "*">>, <<"(", "a", "b", ")", "?">>,
      <<"a", "b", "|", "a">>, <<"b", "|", "a", "*">>, <<"[", "a", "b", "]", "+">>,
      <<"(", "(", ")", ")">>, <<"(", "a", "|", ")", "b">>, <<"(", "[", ")", "]", ")">>,
      <<"[", "(", "]">>, <<"a", "|", "*">>, <<"a", ")", "b">>,
      <<".">>, <<".", "*">>, <<"a", ".">>,
      <<"^">>, <<"^", "a">>, <<"$">>, <<"a", "$">>, <<"^", "a", "$">>,
      <<"{">>, <<"a", "{">>,
      <<"a", "|", ".">>, <<"^", "+">>, <<"a", "b", "*", "a">>,
      <<"a", "[", "a", "b", "]">> }

Patterns == SeqsUpTo(PatChars, MaxPatLen) \cup ScenarioPatterns \cup MorePatterns
Lines == SeqsUpTo(LineChars, MaxLineLen) \cup ScenarioLines

\* str[pos] for 0 <= pos <= strlen(str).
At(str, pos) == IF pos < Len(str) THEN str[pos + 1] ELSE NUL

\* ASCII codes of the characters the model uses.
Ord(c) ==
    CASE c = "$" -> 36 [] c = "(" -> 40 [] c = ")" -> 41 [] c = "*" -> 42
      [] c = "+" -> 43 [] c = "." -> 46 [] c = "?" -> 63 [] c = "[" -> 91
      [] c = "]" -> 93 [] c = "^" -> 94 [] c = "a" -> 97 [] c = "b" -> 98
      [] c = "c" -> 99 [] c = "d" -> 100 [] c = "{" -> 123 [] c = "|" -> 124
      [] c = "~" -> 126 [] OTHER -> 0

\* ------------------------------------------------------- pattern.c: nodes
\* table = NULL as set by every make* function.
NullTable == << >>
\* The value of a Pattern* that points at no node.
NoPattern == [locate |-> "none"]

\* len is left unset by make*; it is not read while table is NULL.
makeSymbolPattern(sym) ==
    [ locate  |-> IF sym = "^" THEN "locateSymbolPatternCarrot"
                  ELSE IF sym = "." THEN "locateSymbolPatternPeriod"
                  ELSE IF sym = "$" THEN "locateSymbolPatternAnchor"
                  ELSE "locateSymbolPattern",
      destroy |-> "destroySimplePattern",
      sym     |-> sym,
      len     |-> 0,
      table   |-> NullTable ]

makeConcatenationPattern(p1, p2) ==
    [ locate  |-> "locateConcatenationPattern",
      destroy |-> "destroyBinaryPattern",
      p1 |-> p1, p2 |-> p2, len |-> 0, table |-> NullTable ]

makeAlterationPattern(p1, p2) ==
    [ locate  |-> "locateAlterationPattern",
      destroy |-> "destroyBinaryPattern",
      p1 |-> p1, p2 |-> p2, len |-> 0, table |-> NullTable ]

makeOptionalPattern(p1) ==
    [ locate  |-> "locateOptionalPattern",
      destroy |-> "destroyRepetitionPattern",
      sym |-> p1, len |-> 0, table |-> NullTable ]

makeAsteriskPattern(pat) ==
    [ locate  |-> "locateAsteriskPattern",
      destroy |-> "destroyRepetitionPattern",
      sym |-> pat, len |-> 0, table |-> NullTable ]

makePlusPattern(pat) ==
    [ locate  |-> "locatePlusPattern",
      destroy |-> "destroyRepetitionPattern",
      sym |-> pat, len |-> 0, table |-> NullTable ]

makeCharacterClassPattern(sym) ==
    [ locate  |-> "locateCharacterClassPattern",
      destroy |-> "destroyCharacterClassPattern",
      cclass |-> sym, len |-> 0, table |-> NullTable ]

\* --------------------------------------------------------------- parse.c
\* strchr( ".^$*?+|()[{", c ) also finds the string's own terminator, so
\* ordinary('\0') is false.
ordinary(c) ==
    c \notin {".", "^", "$", "*", "?", "+", "|", "(", ")", "[", "{", NUL}

\* A parse step's result: st is "ok" (pat and pos are returned), "invalid"
\* (invalidPattern() ended the process) or "ub" (the scan for ')' ran past
\* the end of str).  groups logs every group text the parser extracted.
Ok(pat, pos, groups) == [st |-> "ok", pat |-> pat, pos |-> pos, groups |-> groups]
Stop(st, groups) == [st |-> st, pat |-> NoPattern, pos |-> 0, groups |-> groups]

\* The loop of parseAtomicPattern that copies a group's text into subs: it
\* stops at the first ')' and at nothing else, so at the terminator it
\* copies the '\0' and reads on past the end of str.
RECURSIVE scanGroup(_, _, _)
scanGroup(str, pos, subs) ==
    IF pos >= Len(str) THEN [st |-> "ub", subs |-> subs, pos |-> pos]
    ELSE IF str[pos + 1] = ")" THEN [st |-> "ok", subs |-> subs, pos |-> pos + 1]
    ELSE scanGroup(str, pos + 1, Append(subs, str[pos + 1]))

\* The loop of parseAtomicPattern that copies a character class into subs.
RECURSIVE scanClass(_, _, _)
scanClass(str, pos, subs) ==
    IF At(str, pos) = "]" THEN [st |-> "ok", subs |-> subs, pos |-> pos + 1]
    ELSE IF At(str, pos) = NUL THEN [st |-> "invalid", subs |-> subs, pos |-> pos]
    ELSE scanClass(str, pos + 1, Append(subs, str[pos + 1]))

RECURSIVE parsePattern(_)
RECURSIVE parseAlternation(_, _)
RECURSIVE parseConcatenation(_, _)
RECURSIVE parseRepetition(_, _)
RECURSIVE parseAtomicPattern(_, _)

\* return parsePattern(subs): r is what the inner parsePattern did, g the
\* scan that produced subs and left pos after the ')'.
groupReturn(entry, g, r) ==
    IF r.st = "ok" THEN Ok(r.pat, g.pos, <<entry>> \o r.groups)
    ELSE Stop(r.st, <<entry>> \o r.groups)

\* The '(' branch of parseAtomicPattern, g being its scan for ')'.
atomicGroup(str, pos, g) ==
    LET entry == [str |-> str, open |-> pos, st |-> g.st, subs |-> g.subs]
    IN  IF g.st = "ub" THEN Stop("ub", <<entry>>)
        ELSE groupReturn(entry, g, parsePattern(g.subs))

\* The '[' branch of parseAtomicPattern, g being its scan for ']'.
atomicClass(g) ==
    IF g.st = "invalid" THEN Stop("invalid", << >>)
    ELSE Ok(makeCharacterClassPattern(g.subs), g.pos, << >>)

parseAtomicPattern(str, pos) ==
    IF ordinary(At(str, pos)) THEN Ok(makeSymbolPattern(At(str, pos)), pos + 1, << >>)
    ELSE IF At(str, pos) /= NUL /\ At(str, pos) \in {".", "^", "$", "(", "["} THEN
        IF At(str, pos) = "(" THEN atomicGroup(str, pos, scanGroup(str, pos + 1, << >>))
        ELSE IF At(str, pos) = "[" THEN atomicClass(scanClass(str, pos + 1, << >>))
        ELSE Ok(makeSymbolPattern(At(str, pos)), pos + 1, << >>)
    ELSE Stop("invalid", << >>)

\* The while loop of parseRepetition, r being the parse of p so far; a
\* parse that did not return (r.st /= "ok") passes through unchanged.
RECURSIVE repetitionLoop(_, _)
repetitionLoop(str, r) ==
    IF r.st /= "ok" THEN r
    ELSE IF At(str, r.pos) = "*"
        THEN repetitionLoop(str, Ok(makeAsteriskPattern(r.pat), r.pos + 1, r.groups))
    ELSE IF At(str, r.pos) = "+"
        THEN repetitionLoop(str, Ok(makePlusPattern(r.pat), r.pos + 1, r.groups))
    ELSE IF At(str, r.pos) = "?"
        THEN repetitionLoop(str, Ok(makeOptionalPattern(r.pat), r.pos + 1, r.groups))
    ELSE r

parseRepetition(str, pos) == repetitionLoop(str, parseAtomicPattern(str, pos))

\* p1 = makeConcatenationPattern( p1, p2 ), r being the parse of p1 and
\* p2 that of the next repetition.
concatenationJoin(r, p2) ==
    IF p2.st = "ok"
    THEN Ok(makeConcatenationPattern(r.pat, p2.pat), p2.pos, r.groups \o p2.groups)
    ELSE Stop(p2.st, r.groups \o p2.groups)

\* The while loop of parseConcatenation, r being the parse of p1 so far.
RECURSIVE concatenationLoop(_, _)
concatenationLoop(str, r) ==
    IF r.st /= "ok" THEN r
    ELSE IF At(str, r.pos) /= NUL /\ At(str, r.pos) /= "|" /\ At(str, r.pos) /= ")"
        THEN concatenationLoop(str, concatenationJoin(r, parseRepetition(str, r.pos)))
    ELSE r

parseConcatenation(str, pos) == concatenationLoop(str, parseRepetition(str, pos))

\* p1 = makeAlterationPattern( p1, p2 ), r being the parse of p1 and p2
\* that of the next concatenation.
alternationJoin(r, p2) ==
    IF p2.st = "ok"
    THEN Ok(makeAlterationPattern(r.pat, p2.pat), p2.pos, r.groups \o p2.groups)
    ELSE Stop(p2.st, r.groups \o p2.groups)

\* The while loop of parseAlternation, r being the parse of p1 so far.
RECURSIVE alternationLoop(_, _)
alternationLoop(str, r) ==
    IF r.st /= "ok" THEN r
    ELSE IF At(str, r.pos) = "|"
        THEN alternationLoop(str, alternationJoin(r, parseConcatenation(str, r.pos + 1)))
    ELSE r

parseAlternation(str, pos) == alternationLoop(str, parseConcatenation(str, pos))

\* Complain if this didn't consume the whole pattern.
wholePattern(str, r) ==
    IF r.st = "ok" /\ At(str, r.pos) /= NUL THEN Stop("invalid", r.groups) ELSE r

parsePattern(str) == wholePattern(str, parseAlternation(str, 0))

\* ------------------------------------------------ pattern.c: match tables
\* initTable that reuses, uncleared, a table that already has the size.
initTable_reuse(this, str) ==
    IF this.table /= NullTable /\ this.len = Len(str) THEN this
    ELSE [this EXCEPT !.len = Len(str),
                      !.table = [r \in 0..Len(str) |-> [e \in 0..Len(str) |-> FALSE]]]

\* freeTable releases the old table, if any; the new one is calloc'ed, so
\* nothing of the old table is kept.
initTable(this, str) ==
    [this EXCEPT !.len = Len(str),
                 !.table = [r \in 0..Len(str) |-> [e \in 0..Len(str) |-> FALSE]]]

matches(pat, begin, end) == pat.table[begin][end]

\* The assignments this->table[ b ][ e ] = true for every <<b, e>> in S.
mark(this, S) ==
    [this EXCEPT !.table = [b \in 0..this.len |-> [e \in 0..this.len |->
                                this.table[b][e] \/ <<b, e>> \in S]]]

locateSymbolPattern(pat, str) ==
    LET this == initTable(pat, str)
    IN  mark(this, {<<begin, begin + 1>> :
                       begin \in {i \in 0..(Len(str) - 1) : str[i + 1] = this.sym}})

locateSymbolPatternPeriod(pat, str) ==
    LET this == initTable(pat, str)
    IN  mark(this, {<<begin, begin + 1>> :
                       begin \in {i \in 0..(Len(str) - 1) :
                                     Ord(str[i + 1]) >= 32 /\ Ord(str[i + 1]) <= 122}})

\* The loop body runs for begin < strlen(str) only: not at all on "".
locateSymbolPatternCarrot(pat, str) ==
    LET this == initTable(pat, str)
    IN  mark(this, {<<begin, begin>> :
                       begin \in {i \in 0..(Len(str) - 1) : this.sym = "^" /\ i = 0}})

locateSymbolPatternAnchor(pat, str) ==
    LET this == initTable(pat, str)
    IN  mark(this, {<<begin + 1, begin + 1>> :
                       begin \in {i \in 0..(Len(str) - 1) :
                                     this.sym = "$" /\ i = Len(str) - 1}})

locateCharacterClassPattern(pat, str) ==
    LET this == initTable(pat, str)
    IN  mark(this, {<<begin, begin + 1>> :
                       begin \in {b \in 0..(Len(str) - 1) :
                                     \E i \in 1..Len(this.cclass) : str[b + 1] = this.cclass[i]}})

\* fillConcatenation with the split loop written k < end.
fillConcatenation_shortSplit(this) ==
    mark(this, {<<begin, end>> \in (0..this.len) \X (0..this.len) :
                   /\ begin <= end
                   /\ \E k \in begin..(end - 1) :
                         matches(this.p1, begin, k) /\ matches(this.p2, k, end)})

\* The three nested loops of locateConcatenationPattern, run on a node whose
\* table is fresh and whose children are located.
fillConcatenation(this) ==
    mark(this, {<<begin, end>> \in (0..this.len) \X (0..this.len) :
                   /\ begin <= end
                   /\ \E k \in begin..end :
                         matches(this.p1, begin, k) /\ matches(this.p2, k, end)})

\* The inner pair of loops of locateAlterationPattern: every match of p.
copyMatches(this, p) ==
    mark(this, {<<begin, end>> \in (0..this.len) \X (0..this.len) :
                   begin <= end /\ matches(p, begin, end)})

\* The outer pair of loops of locateAlterationPattern from (begin, end) on:
\* at the first interval either child matches it copies that child's whole
\* table and leaves both loops (begin = end = len + 1; break).
RECURSIVE fillAlteration(_, _, _)
fillAlteration(this, begin, end) ==
    IF begin > this.len THEN this
    ELSE IF end > this.len THEN fillAlteration(this, begin + 1, begin + 1)
    ELSE IF matches(this.p1, begin, end) THEN copyMatches(this, this.p1)
    ELSE IF matches(this.p2, begin, end) THEN copyMatches(this, this.p2)
    ELSE fillAlteration(this, begin, end + 1)

\* The loops of locateOptionalPattern from (begin, end) on: every interval
\* scanned is set, and the first one the child matches ends both loops.
RECURSIVE fillOptional(_, _, _)
fillOptional(this, begin, end) ==
    IF begin > this.len THEN this
    ELSE IF end > this.len THEN fillOptional(this, begin + 1, begin + 1)
    ELSE IF matches(this.sym, begin, end) THEN mark(this, {<<begin, end>>})
    ELSE fillOptional(mark(this, {<<begin, end>>}), begin, end + 1)

\* The while loop of locatePlusPattern: the last shift i, with both ends
\* inside the line, at which the child matches [begin + i, end + i).
plusSteps(this, begin, end) ==
    LET shifts == {i \in 0..this.len :
                      /\ begin + i <= this.len
                      /\ end + i <= this.len
                      /\ matches(this.sym, begin + i, end + i)}
    IN  CHOOSE i \in shifts : \A j \in shifts : j <= i

\* fillPlus that, like the Star loop, also sets table[begin][begin].
fillPlus_emptyToo(this) ==
    mark(this, {<<begin, begin>> : begin \in 0..this.len}
               \cup {<<iv[1], iv[2] + plusSteps(this, iv[1], iv[2])>> :
                        iv \in {x \in (0..this.len) \X (0..this.len) :
                                   x[1] <= x[2] /\ matches(this.sym, x[1], x[2])}})

fillPlus(this) ==
    mark(this, {<<iv[1], iv[2] + plusSteps(this, iv[1], iv[2])>> :
                   iv \in {x \in (0..this.len) \X (0..this.len) :
                              x[1] <= x[2] /\ matches(this.sym, x[1], x[2])}})

fillAsterisk(this) ==
    mark(this, {<<begin, begin>> : begin \in 0..this.len}
               \cup {<<begin, end>> \in (0..this.len) \X (0..this.len) :
                        /\ begin <= end
                        /\ \E k \in begin..end :
                              matches(this.sym, begin, k) \/ matches(this.sym, k, end)})

\* pat->locate( pat, str ): the call through the node's function pointer.
RECURSIVE locate(_, _)

locateConcatenationPattern(pat, str) ==
    LET this == initTable(pat, str)
    IN  fillConcatenation([this EXCEPT !.p1 = locate(this.p1, str),
                                       !.p2 = locate(this.p2, str)])

locateAlterationPattern(pat, str) ==
    LET this == initTable(pat, str)
    IN  fillAlteration([this EXCEPT !.p1 = locate(this.p1, str),
                                    !.p2 = locate(this.p2, str)], 0, 0)

locateOptionalPattern(pat, str) ==
    LET this == initTable(pat, str)
    IN  fillOptional([this EXCEPT !.sym = locate(this.sym, str)], 0, 0)

locatePlusPattern(pat, str) ==
    LET this == initTable(pat, str)
    IN  fillPlus([this EXCEPT !.sym = locate(this.sym, str)])

locateAsteriskPattern(pat, str) ==
    LET this == initTable(pat, str)
    IN  fillAsterisk([this EXCEPT !.sym = locate(this.sym, str)])

locate(pat, str) ==
    CASE pat.locate = "locateSymbolPattern"         -> locateSymbolPattern(pat, str)
      [] pat.locate = "locateSymbolPatternPeriod"   -> locateSymbolPatternPeriod(pat, str)
      [] pat.locate = "locateSymbolPatternCarrot"   -> locateSymbolPatternCarrot(pat, str)
      [] pat.locate = "locateSymbolPatternAnchor"   -> locateSymbolPatternAnchor(pat, str)
      [] pat.locate = "locateCharacterClassPattern" -> locateCharacterClassPattern(pat, str)
      [] pat.locate = "locateConcatenationPattern"  -> locateConcatenationPattern(pat, str)
      [] pat.locate = "locateAlterationPattern"     -> locateAlterationPattern(pat, str)
      [] pat.locate = "locateOptionalPattern"       -> locateOptionalPattern(pat, str)
      [] pat.locate = "locatePlusPattern"           -> locatePlusPattern(pat, str)
      [] pat.locate = "locateAsteriskPattern"       -> locateAsteriskPattern(pat, str)

\* ------------------------------------------- pattern.c: table accesses
\* An access table[ b ][ e ] of locate: node says whose table it is, the
\* node's own ("this", a write) or a child's ("p1", "p2", "sym", the read
\* of matches( child, b, e )).
Access(node, b, e) == [node |-> node, b |-> b, e |-> e]

\* for ( begin = 0; begin <= this->len; begin++ )
\*   for ( end = begin; end <= this->len; end++ )
LoopIntervals(this) == {iv \in (0..this.len) \X (0..this.len) : iv[1] <= iv[2]}

\* The intervals such a pair of loops comes to when the first of hits, in
\* the loops' order, ends both loops.
scanned(this, hits) ==
    LET before(iv, jv) == iv[1] < jv[1] \/ (iv[1] = jv[1] /\ iv[2] <= jv[2])
    IN  IF hits = {} THEN LoopIntervals(this)
        ELSE {iv \in LoopIntervals(this) :
                 before(iv, CHOOSE h \in hits : \A g \in hits : before(h, g))}

symbolAccesses(this, str) ==
    {Access("this", begin, begin + 1) :
        begin \in {i \in 0..(Len(str) - 1) : str[i + 1] = this.sym}}

periodAccesses(this, str) ==
    {Access("this", begin, begin + 1) :
        begin \in {i \in 0..(Len(str) - 1) : Ord(str[i + 1]) >= 32 /\ Ord(str[i + 1]) <= 122}}

carrotAccesses(this, str) ==
    {Access("this", begin, begin) :
        begin \in {i \in 0..(Len(str) - 1) : this.sym = "^" /\ i = 0}}

anchorAccesses(this, str) ==
    {Access("this", begin + 1, begin + 1) :
        begin \in {i \in 0..(Len(str) - 1) : this.sym = "$" /\ i = Len(str) - 1}}

characterClassAccesses(this, str) ==
    {Access("this", begin, begin + 1) :
        begin \in {b \in 0..(Len(str) - 1) :
                      \E i \in 1..Len(this.cclass) : str[b + 1] = this.cclass[i]}}

\* matches( p1, begin, k ) for every split, matches( p2, k, end ) where
\* the first is true, and the write where both are.
concatenationAccesses(this) ==
    UNION {{Access("p1", iv[1], k) : k \in iv[1]..iv[2]}
           \cup {Access("p2", k, iv[2]) :
                    k \in {j \in iv[1]..iv[2] : matches(this.p1, iv[1], j)}}
           \cup {Access("this", iv[1], iv[2]) :
                    k \in {j \in iv[1]..iv[2] :
                              matches(this.p1, iv[1], j) /\ matches(this.p2, j, iv[2])}}
           : iv \in LoopIntervals(this)}

\* The outer loops read both children up to the first match; the inner
\* loops then read the whole table of the child that matched and write
\* its matches.
alterationAccesses(this) ==
    LET hits == {iv \in LoopIntervals(this) :
                    matches(this.p1, iv[1], iv[2]) \/ matches(this.p2, iv[1], iv[2])}
        first == CHOOSE h \in scanned(this, hits) : h \in hits
        child == IF matches(this.p1, first[1], first[2]) THEN "p1" ELSE "p2"
        table == IF child = "p1" THEN this.p1 ELSE this.p2
    IN  {Access("p1", iv[1], iv[2]) : iv \in scanned(this, hits)}
        \cup {Access("p2", iv[1], iv[2]) :
                 iv \in {x \in scanned(this, hits) : ~matches(this.p1, x[1], x[2])}}
        \cup (IF hits = {} THEN {}
              ELSE {Access(child, iv[1], iv[2]) : iv \in LoopIntervals(this)}
                   \cup {Access("this", iv[1], iv[2]) :
                            iv \in {x \in LoopIntervals(this) : matches(table, x[1], x[2])}})

optionalAccesses(this) ==
    LET hits == {iv \in LoopIntervals(this) : matches(this.sym, iv[1], iv[2])}
    IN  {Access("sym", iv[1], iv[2]) : iv \in scanned(this, hits)}
        \cup {Access("this", iv[1], iv[2]) : iv \in scanned(this, hits)}

\* plusAccesses with the while loop written ( begin + i ) <= this->len only.
plusAccesses_noEndGuard(this) ==
    UNION {{Access("sym", iv[1], iv[2])}
           \cup (IF matches(this.sym, iv[1], iv[2])
                 THEN {Access("sym", iv[1] + i, iv[2] + i) :
                          i \in {j \in 0..this.len : iv[1] + j <= this.len}}
                      \cup {Access("this", iv[1], iv[2] + plusSteps(this, iv[1], iv[2]))}
                 ELSE {})
           : iv \in LoopIntervals(this)}

\* matches( sym, begin, end ), then matches( sym, begin + i, end + i ) for
\* every i the while loop runs with, and the write of end + steps.
plusAccesses(this) ==
    UNION {{Access("sym", iv[1], iv[2])}
           \cup (IF matches(this.sym, iv[1], iv[2])
                 THEN {Access("sym", iv[1] + i, iv[2] + i) :
                          i \in {j \in 0..this.len :
                                    iv[1] + j <= this.len /\ iv[2] + j <= this.len}}
                      \cup {Access("this", iv[1], iv[2] + plusSteps(this, iv[1], iv[2]))}
                 ELSE {})
           : iv \in LoopIntervals(this)}

\* table[ begin ][ begin ], then for every split matches( sym, begin, k ),
\* matches( sym, k, end ) where the first is false, and the write where
\* either is true.
asteriskAccesses(this) ==
    {Access("this", begin, begin) : begin \in 0..this.len}
    \cup UNION {{Access("sym", iv[1], k) : k \in iv[1]..iv[2]}
                \cup {Access("sym", k, iv[2]) :
                         k \in {j \in iv[1]..iv[2] : ~matches(this.sym, iv[1], j)}}
                \cup {Access("this", iv[1], iv[2]) :
                         k \in {j \in iv[1]..iv[2] :
                                   matches(this.sym, iv[1], j) \/ matches(this.sym, j, iv[2])}}
                : iv \in LoopIntervals(this)}

\* The table accesses of this->locate( this, str ) itself, its children's
\* locate calls left out; this is the node as locate left it.
accesses(this, str) ==
    CASE this.locate = "locateSymbolPattern"         -> symbolAccesses(this, str)
      [] this.locate = "locateSymbolPatternPeriod"   -> periodAccesses(this, str)
      [] this.locate = "locateSymbolPatternCarrot"   -> carrotAccesses(this, str)
      [] this.locate = "locateSymbolPatternAnchor"   -> anchorAccesses(this, str)
      [] this.locate = "locateCharacterClassPattern" -> characterClassAccesses(this, str)
      [] this.locate = "locateConcatenationPattern"  -> concatenationAccesses(this)
      [] this.locate = "locateAlterationPattern"     -> alterationAccesses(this)
      [] this.locate = "locateOptionalPattern"       -> optionalAccesses(this)
      [] this.locate = "locatePlusPattern"           -> plusAccesses(this)
      [] this.locate = "locateAsteriskPattern"       -> asteriskAccesses(this)

\* ------------------------------------------------------------- regular.c
\* valid line length
LINELEN == 100

\* The tree after pat->destroy( pat ): every node and table is released.
destroy(pat) == NoPattern

\* ----------------------------------------------- pattern.c: releasing
\* A heap block of the tree: the struct of the node at path at (the child
\* indices from the root), its table (the array of row pointers), row r of
\* the table, or the string of a character class.
Block(at, part, r) == [at |-> at, part |-> part, r |-> r]
\* What destroy does to a block: free( ) it, or read a field or element.
Free(at, part, r) == [op |-> "free", blk |-> Block(at, part, r)]
Read(at, part) == [op |-> "read", blk |-> Block(at, part, 0)]

\* freeTable: this->table is read; if there is a table, each row is read
\* from it and freed (r <= this->len), then the table itself.
freeTable(this, at) ==
    <<Read(at, "node")>>
    \o (IF this.table = NullTable THEN << >>
        ELSE [i \in 1..(3 * (this.len + 1)) |->
                 IF i % 3 = 1 THEN Read(at, "node")
                 ELSE IF i % 3 = 2 THEN Read(at, "table")
                 ELSE Free(at, "row", (i \div 3) - 1)]
             \o <<Read(at, "node"), Free(at, "table", 0)>>)

destroySimplePattern(pat, at) ==
    freeTable(pat, at) \o <<Free(at, "node", 0)>>

destroyCharacterClassPattern(this, at) ==
    freeTable(this, at)
    \o <<Read(at, "node"), Free(at, "cclass", 0), Free(at, "node", 0)>>

\* pat->destroy( pat ) on the node at path at: the call through the node's
\* function pointer, as the sequence of reads and frees it performs.
RECURSIVE destroyCall(_, _)

\* destroyBinaryPattern that leaves the second sub-pattern alone.
destroyBinaryPattern_onlyP1(this, at) ==
    freeTable(this, at)
    \o <<Read(at, "node")>> \o destroyCall(this.p1, Append(at, 1))
    \o <<Free(at, "node", 0)>>

destroyBinaryPattern(this, at) ==
    freeTable(this, at)
    \o <<Read(at, "node")>> \o destroyCall(this.p1, Append(at, 1))
    \o <<Read(at, "node")>> \o destroyCall(this.p2, Append(at, 2))
    \o <<Free(at, "node", 0)>>

destroyRepetitionPattern(this, at) ==
    freeTable(this, at)
    \o <<Read(at, "node")>> \o destroyCall(this.sym, Append(at, 1))
    \o <<Free(at, "node", 0)>>

destroyCall(pat, at) ==
    <<Read(at, "node")>>
    \o CASE pat.destroy = "destroySimplePattern"         -> destroySimplePattern(pat, at)
          [] pat.destroy = "destroyBinaryPattern"         -> destroyBinaryPattern(pat, at)
          [] pat.destroy = "destroyRepetitionPattern"     -> destroyRepetitionPattern(pat, at)
          [] pat.destroy = "destroyCharacterClassPattern" -> destroyCharacterClassPattern(pat, at)

\* The second pair of loops of reportMatches from (begin, end) on, as far
\* as its control flow goes; what it prints is left out.  A match sets
\* begin = end - 1, so a match of [0, 0) makes the next read
\* matches( pat, -1, 1 ), and a match of [b, b) with b > 0 brings the outer
\* loop back to begin = b, where it has been (seen): the loop never ends.
RECURSIVE reportScan(_, _, _, _, _)
reportScan(pat, len, begin, end, seen) ==
    IF end > len THEN
        IF begin + 1 > len THEN "returns"
        ELSE IF begin + 1 \in seen THEN "loops"
        ELSE reportScan(pat, len, begin + 1, begin + 1, seen \cup {begin + 1})
    ELSE IF begin < 0 THEN "ub"
    ELSE IF matches(pat, begin, end) THEN reportScan(pat, len, end - 1, end + 1, seen)
    ELSE reportScan(pat, len, begin, end + 1, seen)

\* reportMatches( pat, pstr, str ): "returns", "loops" (it never returns) or
\* "ub" (it reads table[ -1 ]).
reportMatches(pat, str) ==
    IF \E begin \in 0..Len(str) : \E end \in begin..Len(str) : matches(pat, begin, end)
    THEN reportScan(pat, Len(str), 0, 0, {0})
    ELSE "returns"

\* What a run can do once reportMatches has read table[ -1 ]: fault on the
\* address it finds there, or read some value and go on, to the end of the
\* loops or around them for ever.
ReportUBOutcomes == {"reading", "segfault", "report_loop"}

\* Where main is after reportMatches did rep.
afterReport(rep) ==
    IF rep = "returns" THEN {"reading"}
    ELSE IF rep = "loops" THEN {"report_loop"}
    ELSE ReportUBOutcomes

\* What a run can do once the scan for ')' has left str: find a ')' in the
\* bytes that follow and end in invalidPattern(), fault on an unmapped or
\* smashed address, or run on with a tree built from bytes outside the
\* pattern text.
UBOutcomes == {"invalid_pattern", "segfault", "corrupt"}

VARIABLES
    pstr,    \* argv[PAT_ARG], the pattern text
    pc,      \* where main is: "start", "reading", "done", or how it ended
             \* ("report_loop": inside reportMatches for ever)
    pat,     \* the tree parsePattern returned
    groups,  \* the group texts parseAtomicPattern extracted (log)
    in,      \* the input stream: "lines", "blank" (at an empty line), "eof"
    str,     \* the line buffer
    c,       \* the character read after the line
    nlocate, \* how often main has called locate on the root (log)
    nlines,  \* how many input lines the stream has come to (log)
    freed    \* what pat->destroy( pat ) read and freed, in order (log)

vars == <<pstr, pc, pat, groups, in, str, c, nlocate, nlines, freed>>

Init ==
    /\ pstr \in Patterns
    /\ pc = "start"
    /\ pat = NoPattern
    /\ groups = << >>
    /\ in = "lines"
    /\ str = << >>
    /\ c = NUL
    /\ nlocate = 0
    /\ nlines = 0
    /\ freed = << >>

\* main, lines 101-122: open the input, parse the pattern, test the input.
Parse ==
    /\ pc = "start"
    /\ LET r == parsePattern(pstr) IN
        /\ groups' = r.groups
        /\ \/ /\ r.st = "ok"
              /\ pat' = r.pat
              /\ \E opened \in BOOLEAN :
                    pc' = IF opened THEN "reading" ELSE "cant_open"
           \/ /\ r.st = "invalid"
              /\ pat' = NoPattern
              /\ pc' = "invalid_pattern"
           \/ /\ r.st = "ub"
              /\ pat' = NoPattern
              /\ pc' \in UBOutcomes
    /\ UNCHANGED <<pstr, in, str, c, nlocate, nlines, freed>>

\* One turn of main's loop in which fscanf reads a line and its newline
\* (it returns 2): the line is located and reported.  main goes on if
\* reportMatches returns.
ReadLine ==
    /\ pc = "reading"
    /\ in = "lines"
    /\ nlocate < MaxLocate
    /\ \E line \in Lines \ {<< >>} :
        /\ str' = line
        /\ c' = "\n"
        /\ IF Len(line) > LINELEN
           THEN pc' = "line_too_long" /\ pat' = pat /\ nlocate' = nlocate
           ELSE /\ pat' = locate(pat, line)
                /\ nlocate' = nlocate + 1
                /\ pc' \in afterReport(reportMatches(pat', line))
    /\ nlines' = nlines + 1
    /\ UNCHANGED <<pstr, groups, in, freed>>

\* One turn in which fscanf reads a last line that has no newline (it
\* returns 1 and leaves c as it was): the line is located only if an
\* earlier line left c == '\n'.
ReadLastLine ==
    /\ pc = "reading"
    /\ in = "lines"
    /\ c = "\n" => nlocate < MaxLocate
    /\ \E line \in Lines \ {<< >>} :
        /\ str' = line
        /\ IF Len(line) > LINELEN
           THEN pc' = "line_too_long" /\ pat' = pat /\ nlocate' = nlocate
           ELSE IF c = "\n"
           THEN /\ pat' = locate(pat, line)
                /\ nlocate' = nlocate + 1
                /\ pc' \in afterReport(reportMatches(pat', line))
           ELSE pc' = pc /\ pat' = pat /\ nlocate' = nlocate
    /\ in' = "eof"
    /\ nlines' = nlines + 1
    /\ UNCHANGED <<pstr, groups, c, freed>>

\* One turn in which the next line is empty: "%[^\n]" matches nothing, so
\* fscanf returns 0, consumes nothing and leaves str and c as they were;
\* the stream stays at the empty line.
ReadBlank ==
    /\ pc = "reading"
    /\ in \in {"lines", "blank"}
    /\ c = "\n" => nlocate < MaxLocate
    /\ in' = "blank"
    /\ nlines' = IF in = "lines" THEN nlines + 1 ELSE nlines
    /\ IF c = "\n"
       THEN /\ pat' = locate(pat, str)
            /\ nlocate' = nlocate + 1
            /\ pc' \in afterReport(reportMatches(pat', str))
       ELSE pc' = pc /\ pat' = pat /\ nlocate' = nlocate
    /\ UNCHANGED <<pstr, groups, str, c, freed>>

\* fscanf returns EOF: main leaves the loop, destroys the tree, frees the
\* line buffer and returns.
Finish ==
    /\ pc = "reading"
    /\ in \in {"lines", "eof"}
    /\ pat' = destroy(pat)
    /\ freed' = destroyCall(pat, << >>)
    /\ str' = << >>
    /\ pc' = "done"
    /\ in' = "eof"
    /\ UNCHANGED <<pstr, groups, c, nlocate, nlines>>

Next == Parse \/ ReadLine \/ ReadLastLine \/ ReadBlank \/ Finish

Spec == Init /\ [][Next]_vars

\* ------------------------------------------------- properties: vocabulary
\* The root has been located at least once and not destroyed: main is in
\* its loop, or it is where reportMatches left it after a locate.
Located == nlocate > 0 /\ pc \in {"reading", "report_loop", "segfault"}

Binary == {"locateConcatenationPattern", "locateAlterationPattern"}
Repetition == {"locateOptionalPattern", "locatePlusPattern", "locateAsteriskPattern"}

\* Every node of the tree p, p included.
RECURSIVE Nodes(_)
Nodes(p) ==
    {p} \cup (IF p.locate \in Binary THEN Nodes(p.p1) \cup Nodes(p.p2)
              ELSE IF p.locate \in Repetition THEN Nodes(p.sym)
              ELSE {})

NodesOf(kind) == {n \in Nodes(pat) : n.locate = kind}

\* The intervals [b, e) of a line of length len.
Intervals(len) == {iv \in (0..len) \X (0..len) : iv[1] <= iv[2]}

\* The transitive closure of a relation on positions.
RECURSIVE Closure(_)
Closure(R) ==
    IF \A p \in R, q \in R : p[2] = q[1] => <<p[1], q[2]>> \in R THEN R
    ELSE Closure(R \cup {<<pq[1][1], pq[2][2]>> : pq \in {x \in R \X R : x[1][2] = x[2][1]}})

\* The hops x -> y with C.matches(x, y), and the intervals one or more
\* consecutive hops span.
Hops(C) == {iv \in Intervals(C.len) : matches(C, iv[1], iv[2])}
Chains(C) == Closure(Hops(C))

\* The intervals of line s the pattern p matches under the usual meaning
\* of the operators (section 4.2 of the specification).
RECURSIVE Language(_, _)
Language(p, s) ==
    LET len == Len(s)
        diag == {<<i, i>> : i \in 0..len}
        compose(L, R) == {<<lr[1][1], lr[2][2]>> : lr \in {x \in L \X R : x[1][2] = x[2][1]}}
    IN  CASE p.locate = "locateSymbolPattern" ->
               {<<i, i + 1>> : i \in {j \in 0..(len - 1) : s[j + 1] = p.sym}}
          [] p.locate = "locateSymbolPatternPeriod" ->
               {<<i, i + 1>> : i \in {j \in 0..(len - 1) :
                                          Ord(s[j + 1]) >= 32 /\ Ord(s[j + 1]) <= 122}}
          [] p.locate = "locateSymbolPatternCarrot" -> {<<0, 0>>}
          [] p.locate = "locateSymbolPatternAnchor" -> {<<len, len>>}
          [] p.locate = "locateCharacterClassPattern" ->
               {<<i, i + 1>> : i \in {j \in 0..(len - 1) :
                                          \E k \in 1..Len(p.cclass) : s[j + 1] = p.cclass[k]}}
          [] p.locate = "locateConcatenationPattern" ->
               compose(Language(p.p1, s), Language(p.p2, s))
          [] p.locate = "locateAlterationPattern" ->
               Language(p.p1, s) \cup Language(p.p2, s)
          [] p.locate = "locateOptionalPattern" -> Language(p.sym, s) \cup diag
          [] p.locate = "locateAsteriskPattern" -> Closure(Language(p.sym, s)) \cup diag
          [] p.locate = "locatePlusPattern" -> Closure(Language(p.sym, s))

\* ------------------------------------------------------------ properties
\* C1: after locate(root, S), matches(root, 0, len(S)) is true exactly when
\* the whole of S is in the language of the pattern.
C1_WholeLineIffInLanguage ==
    Located => (matches(pat, 0, Len(str)) <=> <<0, Len(str)>> \in Language(pat, str))

\* C2: after locate, the table of every Star(C) node is exactly the
\* reflexive-transitive closure of C's table: table[b][e] iff b = e or e is
\* reached from b by one or more hops C matches.
C2_StarIsClosure ==
    Located =>
        \A n \in NodesOf("locateAsteriskPattern") : \A iv \in Intervals(n.len) :
            matches(n, iv[1], iv[2]) <=> (iv[1] = iv[2] \/ iv \in Chains(n.sym))

\* C3: after locate, the table of every Plus(C) node is exactly the
\* transitive closure of C's table: table[b][e] iff e is reached from b by
\* one or more hops C matches.
C3_PlusIsClosure ==
    Located =>
        \A n \in NodesOf("locatePlusPattern") : \A iv \in Intervals(n.len) :
            matches(n, iv[1], iv[2]) <=> iv \in Chains(n.sym)

\* C4: after locate, the table of every Alternation(L, R) node is the union
\* of its children's tables.
C4_AlternationIsUnion ==
    Located =>
        \A n \in NodesOf("locateAlterationPattern") : \A iv \in Intervals(n.len) :
            matches(n, iv[1], iv[2])
                <=> (matches(n.p1, iv[1], iv[2]) \/ matches(n.p2, iv[1], iv[2]))

\* C5: after locate, the table of every Optional(C) node holds exactly C's
\* matches and the empty intervals.
C5_OptionalIsChildOrEmpty ==
    Located =>
        \A n \in NodesOf("locateOptionalPattern") : \A iv \in Intervals(n.len) :
            matches(n, iv[1], iv[2]) <=> (matches(n.sym, iv[1], iv[2]) \/ iv[1] = iv[2])

\* C6: after locate, both children of every Concat(L, R) node hold the
\* tables of the current line, and the node's table[b][e] is true exactly
\* when some split k in [b, e] has L.matches(b, k) and R.matches(k, e).
C6_ConcatIsSplit ==
    Located =>
        \A n \in NodesOf("locateConcatenationPattern") :
            /\ n.len = Len(str)
            /\ n.p1 = locate(n.p1, str)
            /\ n.p2 = locate(n.p2, str)
            /\ \A iv \in Intervals(n.len) :
                  matches(n, iv[1], iv[2])
                      <=> \E k \in iv[1]..iv[2] :
                              matches(n.p1, iv[1], k) /\ matches(n.p2, k, iv[2])

\* A Concat node matches an interval that only the split k = e yields (its
\* right child matches the empty end), and another that a split strictly
\* inside yields.
C6_Witness ==
    /\ Located
    /\ \E n \in NodesOf("locateConcatenationPattern") :
          \E iv \in Intervals(n.len) :
              /\ matches(n, iv[1], iv[2])
              /\ iv[1] < iv[2]
              /\ matches(n.p1, iv[1], iv[2])
              /\ \A k \in iv[1]..(iv[2] - 1) :
                    ~(matches(n.p1, iv[1], k) /\ matches(n.p2, k, iv[2]))

\* parsePattern has run on pstr.
Parsed == pc /= "start"

\* How many of the characters lo..hi (1-based) of s are ch.
CountIn(s, lo, hi, ch) == Cardinality({k \in lo..hi : s[k] = ch})

\* The ')' that matches the '(' at 1-based position o of s by counting
\* nesting depth (up on '(', down on ')', stop at depth 0); 0 if none does.
MatchingClose(s, o) ==
    LET closes == {j \in (o + 1)..Len(s) : CountIn(s, o, j, "(") = CountIn(s, o, j, ")")}
    IN  IF closes = {} THEN 0 ELSE CHOOSE j \in closes : \A k \in closes : j <= k

\* C7: whenever the parser meets a '(' that has a matching ')', the group
\* text it takes is the text up to that matching ')', found by counting
\* nesting depth, not the text up to the first ')'.
C7_GroupTextToMatchingParen ==
    Parsed =>
        \A i \in 1..Len(groups) :
            LET g == groups[i]
                close == MatchingClose(g.str, g.open + 1)
            IN  close /= 0 =>
                    g.st = "ok" /\ g.subs = SubSeq(g.str, g.open + 2, close - 1)

\* What each character of a pattern text is, read left to right: "open"
\* (a '[' that opens a class), "member" (inside a class), "close" (the ']'
\* that ends a class) or "plain".
RECURSIVE lexFrom(_, _, _)
lexFrom(s, i, inClass) ==
    IF i > Len(s) THEN << >>
    ELSE IF inClass
        THEN IF s[i] = "]" THEN <<"close">> \o lexFrom(s, i + 1, FALSE)
             ELSE <<"member">> \o lexFrom(s, i + 1, TRUE)
    ELSE IF s[i] = "[" THEN <<"open">> \o lexFrom(s, i + 1, TRUE)
    ELSE <<"plain">> \o lexFrom(s, i + 1, FALSE)

Lex(s) == lexFrom(s, 1, FALSE)

\* Some '(' of s opens a group and no ')' follows it.
UnclosedParen(s) ==
    \E i \in 1..Len(s) :
        /\ s[i] = "(" /\ Lex(s)[i] = "plain"
        /\ \A j \in (i + 1)..Len(s) : s[j] /= ")"

\* C8: parsePattern ends with InvalidPattern for every pattern in which
\* some '(' has no closing ')' after it.
C8_UnclosedParenIsInvalid ==
    Parsed /\ UnclosedParen(pstr) => pc = "invalid_pattern"

\* Some '[' of s opens a class and no ']' follows it.
UnterminatedClass(s) ==
    \E i \in 1..Len(s) : Lex(s)[i] = "open" /\ \A j \in (i + 1)..Len(s) : s[j] /= "]"

\* A quantifier or another character that starts no atom ('|', ')', '{',
\* the end of the text) stands where s needs an atom: at the start, right
\* after a '|' or a '(' ; a '{' starts no atom wherever it stands.
NoAtomWhereRequired(s) ==
    \/ \E i \in 1..(Len(s) + 1) :
          /\ i <= Len(s) => Lex(s)[i] = "plain"
          /\ At(s, i - 1) \in {"*", "+", "?", "|", ")", "{", NUL}
          /\ \/ i = 1
             \/ Lex(s)[i - 1] = "plain" /\ s[i - 1] \in {"|", "("}
    \/ \E i \in 1..Len(s) : s[i] = "{" /\ Lex(s)[i] = "plain"

\* The top-level Alternation of s has been parsed and characters remain.
LeftoverSuffix(s) ==
    parseAlternation(s, 0).st = "ok" /\ parseAlternation(s, 0).pos < Len(s)

\* C9: parsePattern ends with InvalidPattern, and returns no tree, for every
\* pattern with an unterminated '[' class, with a quantifier or another
\* non-atom character where an atom is required, or with characters left
\* over after the top-level Alternation.
C9_MalformedIsInvalid ==
    Parsed /\ (UnterminatedClass(pstr) \/ NoAtomWhereRequired(pstr) \/ LeftoverSuffix(pstr))
        => pc = "invalid_pattern" /\ pat = NoPattern

\* C10: after any sequence of locate calls on the tree, every node's len and
\* table are those of a freshly parsed tree located once on the last line.
C10_TablesAreThoseOfLastLine ==
    Located => pat = locate(parsePattern(pstr).pat, str)

\* The root has been located at least twice, and its table for the last
\* line has entries set and entries clear.
C10_Witness ==
    /\ Located
    /\ nlocate >= 2
    /\ \E iv \in Intervals(pat.len) : matches(pat, iv[1], iv[2])
    /\ \E iv \in Intervals(pat.len) : ~matches(pat, iv[1], iv[2])

\* C11: after locate, the table of every Alternation(A, B) node is the
\* table Alternation(B, A) gets on the same line.
C11_AlternationIsSymmetric ==
    Located =>
        \A n \in NodesOf("locateAlterationPattern") :
            n.table = locate(makeAlterationPattern(n.p2, n.p1), str).table

\* C12: after locate, a Plus(C) node matches the empty interval [i, i) only
\* where C matches it.
C12_PlusEmptyOnlyIfChildEmpty ==
    Located =>
        \A n \in NodesOf("locatePlusPattern") : \A i \in 0..n.len :
            matches(n, i, i) => matches(n.sym, i, i)

\* A Plus node matches the empty interval at one position, and at another
\* position neither it nor its child does.
C12_Witness ==
    /\ Located
    /\ \E n \in NodesOf("locatePlusPattern") :
          /\ \E i \in 0..n.len : matches(n, i, i) /\ matches(n.sym, i, i)
          /\ \E j \in 0..n.len : ~matches(n, j, j) /\ ~matches(n.sym, j, j)

\* Concat(Concat(A, B), C) and Concat(A, Concat(B, C)) located on str.
LeftNested(A, B, C) ==
    locate(makeConcatenationPattern(makeConcatenationPattern(A, B), C), str)
RightNested(A, B, C) ==
    locate(makeConcatenationPattern(A, makeConcatenationPattern(B, C)), str)

\* The triples A, B, C of subtrees the tree concatenates, in either nesting.
ConcatTriples ==
    {<<n.p1.p1, n.p1.p2, n.p2>> :
        n \in {m \in NodesOf("locateConcatenationPattern") :
                  m.p1.locate = "locateConcatenationPattern"}}
    \cup
    {<<n.p1, n.p2.p1, n.p2.p2>> :
        n \in {m \in NodesOf("locateConcatenationPattern") :
                  m.p2.locate = "locateConcatenationPattern"}}

\* C13: for all subpatterns A, B, C the trees Concat(Concat(A, B), C) and
\* Concat(A, Concat(B, C)) have identical tables after locate on a line.
C13_ConcatIsAssociative ==
    Located =>
        \A t \in ConcatTriples :
            LeftNested(t[1], t[2], t[3]).table = RightNested(t[1], t[2], t[3]).table

\* Some A, B, C of the tree, B matching an empty interval, concatenate to a
\* match of a non-empty interval in both nestings.
C13_Witness ==
    /\ Located
    /\ \E t \in ConcatTriples :
          /\ \E i \in 0..Len(str) : matches(t[2], i, i)
          /\ \E iv \in Intervals(Len(str)) :
                /\ iv[1] < iv[2]
                /\ matches(LeftNested(t[1], t[2], t[3]), iv[1], iv[2])
                /\ matches(RightNested(t[1], t[2], t[3]), iv[1], iv[2])

\* The one entry an anchor node has on a line of length len.
AnchorEntry(n, len) ==
    IF n.locate = "locateSymbolPatternCarrot" THEN <<0, 0>> ELSE <<len, len>>

\* C14: on every line, the empty line included, locate on an anchor node
\* leaves exactly one true entry: table[0][0] for '^', table[len][len]
\* for '$'.
C14_AnchorHasItsOneEntry ==
    \A n \in NodesOf("locateSymbolPatternCarrot") \cup NodesOf("locateSymbolPatternAnchor") :
        \A line \in Lines :
            Hops(locate(n, line)) = {AnchorEntry(n, Len(line))}

\* The heap blocks the tree p, standing at path at, holds.
RECURSIVE BlocksAt(_, _)
BlocksAt(p, at) ==
    {Block(at, "node", 0)}
    \cup (IF p.table = NullTable THEN {}
          ELSE {Block(at, "table", 0)} \cup {Block(at, "row", r) : r \in 0..p.len})
    \cup (IF p.locate = "locateCharacterClassPattern" THEN {Block(at, "cclass", 0)} ELSE {})
    \cup (IF p.locate \in Binary
          THEN BlocksAt(p.p1, Append(at, 1)) \cup BlocksAt(p.p2, Append(at, 2))
          ELSE IF p.locate \in Repetition THEN BlocksAt(p.sym, Append(at, 1))
          ELSE {})

\* Path q lies strictly below path at.
Below(q, at) == Len(q) > Len(at) /\ SubSeq(q, 1, Len(at)) = at

\* The events evs release the tree p: every block of p is freed exactly
\* once and nothing else is; no block is read or freed after it was freed;
\* everything below a node is freed before the node's own struct.
Releases(evs, p) ==
    LET frees == {i \in 1..Len(evs) : evs[i].op = "free"}
    IN  /\ \A b \in BlocksAt(p, << >>) :
              Cardinality({i \in frees : evs[i].blk = b}) = 1
        /\ \A i \in frees : evs[i].blk \in BlocksAt(p, << >>)
        /\ \A i \in frees : \A j \in (i + 1)..Len(evs) : evs[j].blk /= evs[i].blk
        /\ \A i \in frees : \A j \in frees :
              evs[i].blk.part = "node" /\ Below(evs[j].blk.at, evs[i].blk.at) => j < i

\* C15: destroy on the root of a tree parsePattern built, after any number
\* of locate calls, frees every node, every node's current table and every
\* character-class string exactly once, children before their parent's
\* struct, and reads nothing it has freed.
C15_DestroyReleasesTheTree ==
    [][pc = "reading" /\ pc' = "done" => Releases(freed', pat)]_vars

\* destroy has run on a tree that had been located, with a parent of two
\* children among its nodes and a character class, and freed table rows.
C15_Witness ==
    /\ pc = "done"
    /\ nlocate > 0
    /\ \E i \in 1..Len(freed) : freed[i].op = "free" /\ freed[i].blk.part = "row"
    /\ \E i \in 1..Len(freed) : freed[i].op = "free" /\ freed[i].blk.part = "cclass"
    /\ \E i \in 1..Len(freed) : freed[i].op = "free" /\ freed[i].blk.at = <<2>>

\* The line the stream is at or has just delivered.
CurrentLine == IF in = "blank" THEN << >> ELSE str

\* C16: for every sequence of input lines, empty lines included, the driver
\* builds the tree once, calls locate on the root exactly once for each line
\* and with that line before it queries matches, and after the last line
\* destroys the tree once; it neither stops nor stays before that, and
\* nothing follows destroy.
C16_DriverLifecycle ==
    pc \in {"reading", "report_loop", "segfault", "done"} /\ nlines > 0 =>
        /\ nlocate = nlines
        /\ pc /= "done" => pat = locate(parsePattern(pstr).pat, CurrentLine)
        /\ pc \in {"reading", "done"}
        /\ pc = "reading" => in /= "blank"
        /\ pc = "done" => pat = NoPattern /\ freed /= << >>

\* The node whose table the access a of node n indexes.
Accessed(n, a) ==
    CASE a.node = "this" -> n
      [] a.node = "p1"   -> n.p1
      [] a.node = "p2"   -> n.p2
      [] a.node = "sym"  -> n.sym

\* The table of n is (len + 1) x (len + 1).
Square(n) ==
    /\ n.table /= NullTable
    /\ DOMAIN n.table = 0..n.len
    /\ \A r \in 0..n.len : DOMAIN n.table[r] = 0..n.len

\* C17: when locate(root, S) has returned, every node has len = length of S
\* and a (len + 1) x (len + 1) table; every read matches(child, b, e) and
\* every table write locate made has 0 <= b <= e <= len of the table it
\* indexes, and no entry below the diagonal is set.
C17_AccessesWithinTables ==
    Located =>
        \A n \in Nodes(pat) :
            /\ n.len = Len(str)
            /\ Square(n)
            /\ \A a \in accesses(n, str) :
                  /\ Square(Accessed(n, a))
                  /\ 0 <= a.b /\ a.b <= a.e /\ a.e <= Accessed(n, a).len
            /\ \A b \in 0..n.len : \A e \in 0..(b - 1) : ~n.table[b][e]

\* A Plus node has shifted a match of its child to the end of the line:
\* it read the child's last interval and wrote table[ b ][ len ].
C17_Witness ==
    /\ Located
    /\ \E n \in NodesOf("locatePlusPattern") :
          \E a \in accesses(n, str) :
              /\ a.node = "this"
              /\ a.e = n.len
              /\ \E i \in 1..n.len :
                    /\ matches(n.sym, a.b, a.e - i)
                    /\ Access("sym", a.b + i, a.e) \in accesses(n, str)

====
